---- MODULE Spec2Model ----
(***************************************************************************)
(* The Notion scraper worker: one fetch handler per request, in three      *)
(* variants (src/src/index.ts, src/unnamed/part_000, src/unnamed/part_001).*)
(* The handler is a sequence of awaited calls on a browser collaborator;   *)
(* every awaited call either resolves or throws.                           *)
(***************************************************************************)
EXTENDS Integers, Sequences, FiniteSets, TLC

VARIABLES
    variant,        \* which source file's handler serves the request
    request,        \* [path, method, url]: the parsed incoming request
    pc,             \* the handler's position (the await it is suspended at)
    browser,        \* TRUE once `browser = await launch(...)` has assigned the handle
    error,          \* the value caught by the outer catch (NoFault before)
    iteration,      \* loop local `iteration`
    lastClickCount, \* loop local `lastClickCount` (index.ts, part_000)
    collapsed,      \* page: collapsed toggles that are connected, visible and enabled
    blocked,        \* page: collapsed toggles that are invisible or aria-disabled
    selfChanging,   \* page: TRUE when toggles may also appear without an activation
    dom,            \* page: the DOM seen by the extractor (NoDom until it runs)
    contentParts,   \* the extractor's `contentParts`, each character with its text node
    extractedData,  \* const `extractedData` (NoData before extraction)
    response,       \* the Response the handler returned (NoResponse before)
    outcome,        \* "pending", "returned" or "rejected" (the promise threw)
    closeCount,     \* history: number of browser.close() invocations
    passes,         \* history: number of activation passes (click evaluates) begun
    prevPassCount,  \* history: clickedCount of the latest completed pass (-1: none)
    stopSeen,       \* history: a completed pass clicked 0, or as many as the pass before
    loopExit,       \* history: how the expansion loop was left
    logged          \* history: the inner catch ran (console.log at the expansion catch)

vars == << variant, request, selfChanging, pc, browser, error, iteration, lastClickCount,
           collapsed, blocked, dom, contentParts, extractedData, response, outcome,
           closeCount, passes, prevPassCount, stopSeen, loopExit, logged >>

-----------------------------------------------------------------------------
(* Bounds of the model *)

MaxToggles == 2
MaxBlocked == 1
MaxNodes == 3

-----------------------------------------------------------------------------
(* Strings are sequences of one-character strings, so that includes() and  *)
(* trim() are computed, not assumed.                                        *)

Includes(s, sub) ==
    \E i \in 1..(Len(s) + 1) :
        /\ i + Len(sub) - 1 <= Len(s)
        /\ SubSeq(s, i, i + Len(sub) - 1) = sub

NotionSo == << "n", "o", "t", "i", "o", "n", ".", "s", "o" >>
NotionSite == << "n", "o", "t", "i", "o", "n", ".", "s", "i", "t", "e" >>

UrlSo == << "a", "." >> \o NotionSo \o << "/", "p" >>
UrlSite == << "a", "." >> \o NotionSite \o << "/", "p" >>
UrlBoth == NotionSo \o << "/" >> \o NotionSite
UrlNeither == << "n", "o", "t", "i", "o", "n", ".", "s", "/", "p" >>
UrlEmpty == << >>
NoParam == << "null" >>

Variants == { "index", "part_000", "part_001" }
Paths == { "/scrape", "/" }
Methods == { "GET", "OPTIONS" }
UrlParams == { NoParam, UrlEmpty, UrlSo, UrlSite, UrlBoth, UrlNeither }
Requests == [ path : Paths, method : Methods, url : UrlParams ]

CORS_HEADERS ==
    { << "Access-Control-Allow-Origin", "*" >>,
      << "Access-Control-Allow-Methods", "GET, POST, OPTIONS" >>,
      << "Access-Control-Allow-Headers", "Content-Type, Authorization" >> }

JsonHeaders == { << "Content-Type", "application/json" >> } \cup CORS_HEADERS

NoResponse == [ status |-> 0, headers |-> {}, body |-> [ kind |-> "none" ] ]
NoFault == [ isError |-> FALSE, message |-> "" ]
NoData == [ title |-> << >>, content |-> << >> ]

ErrorResponse(status, msg) ==
    [ status |-> status, headers |-> JsonHeaders,
      body |-> [ kind |-> "error", error |-> msg ] ]

-----------------------------------------------------------------------------
(* Request routing: the synchronous prefix of fetch *)

HostRejected(v, url) ==
    IF v = "part_001"
    THEN ~Includes(url, NotionSo) \/ ~Includes(url, NotionSite)
    ELSE ~Includes(url, NotionSo) /\ ~Includes(url, NotionSite)

MissingUrl(url) == url = NoParam \/ url = UrlEmpty

\* the url check moved ahead of the OPTIONS check
RouteResponseUrlFirst(v, req) ==
    IF req.path # "/scrape"
    THEN ErrorResponse(404, "Use /scrape endpoint with ?url=<notion-url>")
    ELSE IF MissingUrl(req.url)
    THEN ErrorResponse(400, "Missing \"url\" query parameter")
    ELSE IF req.method = "OPTIONS"
    THEN [ status |-> 200, headers |-> CORS_HEADERS, body |-> [ kind |-> "empty" ] ]
    ELSE IF HostRejected(v, req.url)
    THEN ErrorResponse(400, "Invalid Notion URL. Must be from notion.so or notion.site")
    ELSE NoResponse

RouteResponse(v, req) ==
    IF req.path # "/scrape"
    THEN ErrorResponse(404, "Use /scrape endpoint with ?url=<notion-url>")
    ELSE IF req.method = "OPTIONS"
    THEN [ status |-> 200, headers |-> CORS_HEADERS, body |-> [ kind |-> "empty" ] ]
    ELSE IF MissingUrl(req.url)
    THEN ErrorResponse(400, "Missing \"url\" query parameter")
    ELSE IF HostRejected(v, req.url)
    THEN ErrorResponse(400, "Invalid Notion URL. Must be from notion.so or notion.site")
    ELSE NoResponse

-----------------------------------------------------------------------------
(* The expansion loop's parameters and tests *)

MaxIterationsBatch == 20
MaxIterationsFirst == 100

maxIterations(v) == IF v = "part_001" THEN MaxIterationsFirst ELSE MaxIterationsBatch

\* the plateau test taken as "no growth"
ShouldBreakNoGrowth(v, iter, clickedCount, last) ==
    clickedCount = 0 \/ clickedCount <= last

\* the plateau test dropped
ShouldBreakOnZeroOnly(v, iter, clickedCount, last) == clickedCount = 0

\* the break tests that follow `clickedCount = await clickAllCollapsed()`
ShouldBreak(v, iter, clickedCount, last) ==
    IF v = "index"
    THEN clickedCount = 0 \/ clickedCount = last
    ELSE \/ (iter > 0 /\ clickedCount = last)
         \/ (clickedCount = 0 /\ iter > 2)

\* the in-page function of clickAllCollapsed: the number of nodes it clicks
ClickedCount(nCollapsed, nBlocked) == nCollapsed

\* the in-page function of getCollapsedCount: every node matching the selector
CollapsedCount(nCollapsed, nBlocked) == nCollapsed + nBlocked

\* the while test off by one
LoopHeadInclusive(v, iter) ==
    IF iter <= maxIterations(v)
    THEN (IF v = "part_001" THEN "getCollapsedCount" ELSE "clickAllCollapsed")
    ELSE "settle"

\* the clickable collapsed toggles the page may hold once `clicked` of them have been
\* sent a click: each clicked toggle expands and may reveal further ones; with no
\* click the page stays as it is, unless it changes by itself
AfterClicks(clicked, nCollapsed, changing) ==
    IF clicked = 0 /\ ~changing THEN { nCollapsed } ELSE 0..MaxToggles

\* `while (iteration < maxIterations)`: where control goes with this iteration
LoopHead(v, iter) ==
    IF iter < maxIterations(v)
    THEN (IF v = "part_001" THEN "getCollapsedCount" ELSE "clickAllCollapsed")
    ELSE "settle"

-----------------------------------------------------------------------------
(* The page's DOM under the content root.  nodes[i] is the i-th element in *)
(* document order (pre-order); parent 0 is the content root itself.  An    *)
(* element's own text is the text node that is its first child.  cls holds *)
(* the indicator substrings its class attribute contains.  A character of  *)
(* text is [c, o]: the character and the element whose text node holds it. *)

MediaTags == { "img", "svg", "video", "audio", "iframe" }
Indicators == { "image", "embed", "video", "file" }

RECURSIVE Anc(_, _)
Anc(ns, i) ==
    IF ns[i].parent = 0 THEN {} ELSE { ns[i].parent } \cup Anc(ns, ns[i].parent)

InSubtree(ns, j, b) == j = b \/ b \in Anc(ns, j)

Descendants(ns, b) == { j \in 1..Len(ns) : b \in Anc(ns, j) }

\* querySelectorAll('[data-block-id]') on the content root, in document order
RECURSIVE BlocksFrom(_, _)
BlocksFrom(ns, i) ==
    IF i > Len(ns) THEN << >>
    ELSE (IF ns[i].block THEN << i >> ELSE << >>) \o BlocksFrom(ns, i + 1)

AllBlocks(ns) == BlocksFrom(ns, 1)

Range(s) == { s[i] : i \in 1..Len(s) }

\* block.parentElement?.closest('[data-block-id]'): the nearest proper ancestor that
\* carries the marker; 0 is a marked element at or above the content root, -1 is null
Closest(d, b) ==
    LET marked == { a \in Anc(d.nodes, b) : d.nodes[a].block }
    IN  IF marked # {} THEN CHOOSE a \in marked : \A x \in marked : x <= a
        ELSE IF d.rootInBlock THEN 0
        ELSE -1

\* no filter: every block is kept
IsTopLevelAlways(d, b) == TRUE

\* the filter that builds topLevelBlocks (index.ts)
IsTopLevel(d, b) ==
    LET parent == Closest(d, b)
    IN  parent = -1 \/ parent \notin Range(AllBlocks(d.nodes))

\* the svg test left out
SkipsBlockWithoutSvg(ns, b) ==
    \E j \in Descendants(ns, b) :
        \/ ns[j].tag = "img"
        \/ "image" \in ns[j].cls
        \/ "embed" \in ns[j].cls
        \/ "video" \in ns[j].cls
        \/ "file" \in ns[j].cls

\* the media test that makes index.ts skip a block: querySelector on its descendants
SkipsBlock(ns, b) ==
    \E j \in Descendants(ns, b) :
        \/ ns[j].tag = "img"
        \/ "image" \in ns[j].cls
        \/ "embed" \in ns[j].cls
        \/ "video" \in ns[j].cls
        \/ "file" \in ns[j].cls
        \/ ns[j].tag = "svg"

\* clone.querySelectorAll('img, svg, video, audio, iframe'): the elements removed
MediaIn(ns, b) == { j \in Descendants(ns, b) : ns[j].tag \in MediaTags }

\* clone.querySelectorAll('[data-block-id]'): the nested blocks removed (part_000)
NestedBlocksIn(ns, b) == { j \in Descendants(ns, b) : ns[j].block }

\* textContent of the clone of b once the subtrees of `removed` are taken out
RECURSIVE TextFrom(_, _, _, _)
TextFrom(ns, b, removed, j) ==
    IF j > Len(ns) THEN << >>
    ELSE (IF /\ InSubtree(ns, j, b)
             /\ ns[j].text # ""
             /\ \A r \in removed : ~InSubtree(ns, j, r)
          THEN << [ c |-> ns[j].text, o |-> j ] >>
          ELSE << >>) \o TextFrom(ns, b, removed, j + 1)

TextContent(ns, b, removed) == TextFrom(ns, b, removed, b)

IsSpace(ch) == ch.c = " "

RECURSIVE TrimStart(_)
TrimStart(s) ==
    IF s # << >> /\ IsSpace(Head(s)) THEN TrimStart(Tail(s)) ELSE s

RECURSIVE TrimEnd(_)
TrimEnd(s) ==
    IF s # << >> /\ IsSpace(s[Len(s)]) THEN TrimEnd(SubSeq(s, 1, Len(s) - 1)) ELSE s

Trim(s) == TrimEnd(TrimStart(s))

\* the characters alone: what a string comparison and the JSON body see
Plain(s) == [ i \in 1..Len(s) |-> s[i].c ]

\* the text one block contributes: << >> when it contributes nothing
BlockText(v, d, b) ==
    IF v = "index"
    THEN IF ~IsTopLevel(d, b) \/ SkipsBlock(d.nodes, b) THEN << >>
         ELSE Trim(TextContent(d.nodes, b, MediaIn(d.nodes, b)))
    ELSE IF v = "part_000"
    THEN Trim(TextContent(d.nodes, b,
                          NestedBlocksIn(d.nodes, b) \cup MediaIn(d.nodes, b)))
    ELSE Trim(TextContent(d.nodes, b, {}))

\* whether part_000's seenTexts already holds this text
Seen(v, parts, text) ==
    v = "part_000" /\ \E k \in 1..Len(parts) : Plain(parts[k]) = Plain(text)

\* the forEach over the blocks that fills contentParts
RECURSIVE Collect(_, _, _, _)
Collect(v, d, blocks, parts) ==
    IF blocks = << >> THEN parts
    ELSE LET text == BlockText(v, d, Head(blocks))
         IN  Collect(v, d, Tail(blocks),
                     IF Len(text) > 0 /\ ~Seen(v, parts, text)
                     THEN Append(parts, text)
                     ELSE parts)

ContentParts(v, d) ==
    IF ~d.hasRoot THEN << >> ELSE Collect(v, d, AllBlocks(d.nodes), << >>)

\* contentParts.join('\n\n')
RECURSIVE Join(_)
Join(parts) ==
    IF parts = << >> THEN << >>
    ELSE IF Len(parts) = 1 THEN Plain(parts[1])
    ELSE Plain(parts[1]) \o << "\n", "\n" >> \o Join(Tail(parts))

Untitled == << "U", "n", "t", "i", "t", "l", "e", "d" >>
NoTitle == << [ c |-> "null", o |-> 0 ] >>

\* titleElement?.textContent?.trim() || 'Untitled'
Title(d) ==
    IF d.title = NoTitle \/ Trim(d.title) = << >> THEN Untitled
    ELSE Plain(Trim(d.title))

\* the value the extraction evaluate returns
ExtractedData(v, d) ==
    [ title |-> Title(d), content |-> Join(ContentParts(v, d)) ]

-----------------------------------------------------------------------------
(* The pages the model draws from *)

Elem(p, tag, isBlock, cls, text) ==
    [ parent |-> p, tag |-> tag, block |-> isBlock, cls |-> cls, text |-> text ]

\* the elements a page may hold, before they are given a parent
ElementKinds ==
    { Elem(0, "div", TRUE, {}, t) : t \in { "a", " ", "" } }
        \cup { Elem(0, "div", FALSE, {}, "b"), Elem(0, "div", FALSE, { "embed" }, "") }
        \cup { Elem(0, tag, FALSE, {}, "") : tag \in { "img", "svg", "video", "audio" } }

\* the parents the next element in document order may have: the content root, or an
\* element on the path from the last element up (media elements hold no children)
OpenParents(ns) ==
    IF ns = << >> THEN { 0 }
    ELSE { 0 } \cup { p \in { Len(ns) } \cup Anc(ns, Len(ns)) : ns[p].tag = "div" }

RECURSIVE NodeSeqs(_)
NodeSeqs(n) ==
    IF n = 0 THEN { << >> }
    ELSE LET shorter == NodeSeqs(n - 1)
         IN  shorter \cup
             { Append(ns, [ k EXCEPT !.parent = p ]) :
                 << ns, k, p >> \in { t \in shorter \X ElementKinds \X (0..(n - 1)) :
                                        /\ Len(t[1]) = n - 1
                                        /\ t[3] \in OpenParents(t[1]) } }

NoDom == [ hasRoot |-> FALSE, rootInBlock |-> FALSE, title |-> NoTitle, nodes |-> << >> ]

AllDoms ==
    { [ hasRoot |-> TRUE, rootInBlock |-> r, title |-> NoTitle, nodes |-> ns ] :
        r \in BOOLEAN, ns \in NodeSeqs(MaxNodes) }

\* the pages a whole request is run against
PageDoms ==
    { [ hasRoot |-> FALSE, rootInBlock |-> FALSE,
        title |-> << [ c |-> "T", o |-> 0 ] >>, nodes |-> << >> ],
      [ hasRoot |-> TRUE, rootInBlock |-> FALSE, title |-> NoTitle,
        nodes |-> << Elem(0, "div", TRUE, {}, "a"), Elem(1, "div", TRUE, {}, "b") >> ],
      [ hasRoot |-> TRUE, rootInBlock |-> FALSE,
        title |-> << [ c |-> " ", o |-> 0 ], [ c |-> "T", o |-> 0 ] >>,
        nodes |-> << Elem(0, "div", TRUE, {}, "a"), Elem(1, "audio", FALSE, {}, "") >> ] }

-----------------------------------------------------------------------------
(* Faults: what an awaited call throws *)

OuterSites ==
    { "launch", "newPage", "goto", "waitForSelector", "preWait", "settle", "extract",
      "close" }
InnerSites ==
    { "clickAllCollapsed", "getCollapsedCount", "clickFirstCollapsed", "pause" }

Faults(site) == { [ isError |-> e, message |-> site ] : e \in BOOLEAN }

\* error instanceof Error ? error.message : 'Unknown error occurred'
errorMessage(e) == IF e.isError THEN e.message ELSE "Unknown error occurred"

ScrapeFailure(e) ==
    [ status |-> 500, headers |-> JsonHeaders,
      body |-> [ kind |-> "error", error |-> "Failed to scrape Notion page",
                 details |-> errorMessage(e) ] ]

ScrapeResult(data) ==
    [ status |-> 200, headers |-> JsonHeaders,
      body |-> [ kind |-> "result", title |-> data.title, content |-> data.content ] ]

\* the outer catch's `if (browser)`
CatchEntry(hasBrowser) == IF hasBrowser THEN "catchClose" ELSE "respond500"

\* no inner try: the throw reaches the outer catch
ExpansionCatchOuter == "catchClose"

\* where a throw inside the expansion phase takes control
ExpansionCatch == "settle"

-----------------------------------------------------------------------------
(* The handler *)

Init ==
    /\ variant \in Variants
    /\ request \in Requests
    /\ pc = "route"
    /\ browser = FALSE
    /\ error = NoFault
    /\ iteration = 0
    /\ lastClickCount = -1
    /\ collapsed = 0
    /\ blocked = 0
    /\ selfChanging \in BOOLEAN
    /\ dom = NoDom
    /\ contentParts = << >>
    /\ extractedData = NoData
    /\ response = NoResponse
    /\ outcome = "pending"
    /\ closeCount = 0
    /\ passes = 0
    /\ prevPassCount = -1
    /\ stopSeen = FALSE
    /\ loopExit = "none"
    /\ logged = FALSE

History == << closeCount, passes, prevPassCount, stopSeen, loopExit, logged >>
Page == << collapsed, blocked, dom >>
Locals == << iteration, lastClickCount >>
Result == << contentParts, extractedData, response, outcome >>

\* the path, method and url checks end the request
RouteReturn ==
    /\ pc = "route"
    /\ RouteResponse(variant, request) # NoResponse
    /\ response' = RouteResponse(variant, request)
    /\ outcome' = "returned"
    /\ pc' = "done"
    /\ UNCHANGED << variant, request, selfChanging, browser, error, Locals, Page, contentParts,
                    extractedData, History >>

\* the request passes validation and enters the try block
RouteAccept ==
    /\ pc = "route"
    /\ RouteResponse(variant, request) = NoResponse
    /\ pc' = "launch"
    /\ UNCHANGED << variant, request, selfChanging, browser, error, Locals, Page, Result, History >>

Launch ==
    /\ pc = "launch"
    /\ browser' = TRUE
    /\ pc' = "newPage"
    /\ UNCHANGED << variant, request, selfChanging, error, Locals, Page, Result, History >>

NewPage ==
    /\ pc = "newPage"
    /\ pc' = "goto"
    /\ UNCHANGED << variant, request, selfChanging, browser, error, Locals, Page, Result, History >>

\* navigation resolves: the page is loaded, with whatever toggles it holds
Goto ==
    /\ pc = "goto"
    /\ collapsed' \in 0..MaxToggles
    /\ blocked' \in 0..MaxBlocked
    /\ pc' = "waitForSelector"
    /\ UNCHANGED << variant, request, selfChanging, browser, error, Locals, dom, Result, History >>

WaitForSelector ==
    /\ pc = "waitForSelector"
    /\ pc' = IF variant = "part_000" THEN "preWait" ELSE LoopHead(variant, 0)
    /\ UNCHANGED << variant, request, selfChanging, browser, error, Locals, Page, Result, History >>

\* part_000 alone waits before the expansion phase
PreWait ==
    /\ pc = "preWait"
    /\ pc' = LoopHead(variant, 0)
    /\ UNCHANGED << variant, request, selfChanging, browser, error, Locals, Page, Result, History >>

\* one pass of the batch variants: the evaluate resolves and the break tests run
ClickAllCollapsed ==
    /\ pc = "clickAllCollapsed"
    /\ LET clickedCount == ClickedCount(collapsed, blocked)
       IN  /\ passes' = passes + 1
           /\ prevPassCount' = clickedCount
           /\ stopSeen' = (stopSeen \/ clickedCount = 0 \/ clickedCount = prevPassCount)
           /\ IF ShouldBreak(variant, iteration, clickedCount, lastClickCount)
              THEN /\ pc' = "settle"
                   /\ loopExit' = "break"
                   /\ iteration' = 0
                   /\ lastClickCount' = -1
              ELSE /\ pc' = "pause"
                   /\ loopExit' = loopExit
                   /\ iteration' = iteration
                   /\ lastClickCount' = clickedCount
    /\ collapsed' \in AfterClicks(collapsed, collapsed, selfChanging)
    /\ UNCHANGED << variant, request, selfChanging, browser, error, blocked, dom, Result, closeCount,
                    logged >>

\* part_001: count the matches of the selector, leave the loop when there are none
GetCollapsedCount ==
    /\ pc = "getCollapsedCount"
    /\ LET before == CollapsedCount(collapsed, blocked)
       IN  IF before = 0
           THEN /\ pc' = "settle"
                /\ loopExit' = "break"
                /\ iteration' = 0
           ELSE /\ pc' = "clickFirstCollapsed"
                /\ loopExit' = loopExit
                /\ iteration' = iteration
    /\ UNCHANGED << variant, request, selfChanging, browser, error, lastClickCount, Page, Result,
                    closeCount, passes, prevPassCount, stopSeen, logged >>

\* part_001: the in-page loop clicks every visible, enabled match
ClickFirstCollapsed ==
    /\ pc = "clickFirstCollapsed"
    /\ passes' = passes + 1
    /\ prevPassCount' = ClickedCount(collapsed, blocked)
    /\ collapsed' \in AfterClicks(collapsed, collapsed, selfChanging)
    /\ pc' = "pause"
    /\ UNCHANGED << variant, request, selfChanging, browser, error, Locals, blocked, dom, Result,
                    closeCount, stopSeen, loopExit, logged >>

\* the wait between passes resolves; iteration++ and the while test
Pause ==
    /\ pc = "pause"
    /\ pc' = LoopHead(variant, iteration + 1)
    /\ IF LoopHead(variant, iteration + 1) = "settle"
       THEN /\ loopExit' = "cap"
            /\ iteration' = 0
            /\ lastClickCount' = -1
       ELSE /\ loopExit' = loopExit
            /\ iteration' = iteration + 1
            /\ lastClickCount' = lastClickCount
    /\ UNCHANGED << variant, request, selfChanging, browser, error, Page, Result, closeCount, passes,
                    prevPassCount, stopSeen, logged >>

\* an awaited call of the expansion phase throws: the inner catch logs it
ExpansionThrow ==
    /\ pc \in InnerSites
    /\ pc' = ExpansionCatch
    /\ logged' = TRUE
    /\ loopExit' = "fault"
    /\ iteration' = 0
    /\ lastClickCount' = -1
    /\ IF pc \in { "clickAllCollapsed", "clickFirstCollapsed" }
       THEN /\ passes' = passes + 1
            /\ collapsed' \in AfterClicks(collapsed, collapsed, selfChanging)
       ELSE /\ passes' = passes
            /\ collapsed' = collapsed
    /\ UNCHANGED << variant, request, selfChanging, browser, error, blocked, dom, Result, closeCount,
                    prevPassCount, stopSeen >>

\* the wait that follows the expansion phase
Settle ==
    /\ pc = "settle"
    /\ pc' = "extract"
    /\ UNCHANGED << variant, request, selfChanging, browser, error, Locals, Page, Result, History >>

\* the extraction evaluate resolves with what the in-page function returns
Extract ==
    /\ pc = "extract"
    /\ \E d \in (IF dom = NoDom THEN PageDoms ELSE { dom }) :
         /\ dom' = d
         /\ contentParts' = ContentParts(variant, d)
         /\ extractedData' = ExtractedData(variant, d)
    /\ pc' = "close"
    /\ UNCHANGED << variant, request, selfChanging, browser, error, Locals, collapsed, blocked,
                    response, outcome, History >>

\* `await browser.close()` at the end of the try block resolves
Close ==
    /\ pc = "close"
    /\ closeCount' = closeCount + 1
    /\ pc' = "respond200"
    /\ UNCHANGED << variant, request, selfChanging, browser, error, Locals, Page, Result, passes,
                    prevPassCount, stopSeen, loopExit, logged >>

Respond200 ==
    /\ pc = "respond200"
    /\ response' = ScrapeResult(extractedData)
    /\ outcome' = "returned"
    /\ pc' = "done"
    /\ UNCHANGED << variant, request, selfChanging, browser, error, Locals, Page, contentParts,
                    extractedData, History >>

\* an awaited call outside the expansion phase throws: the outer catch takes it
OuterThrow ==
    /\ pc \in OuterSites
    /\ error' \in Faults(pc)
    /\ closeCount' = IF pc = "close" THEN closeCount + 1 ELSE closeCount
    /\ pc' = CatchEntry(browser)
    /\ UNCHANGED << variant, request, selfChanging, browser, Locals, Page, Result, passes,
                    prevPassCount, stopSeen, loopExit, logged >>

\* `await browser.close()` in the catch block resolves
CatchClose ==
    /\ pc = "catchClose"
    /\ closeCount' = closeCount + 1
    /\ pc' = "respond500"
    /\ UNCHANGED << variant, request, selfChanging, browser, error, Locals, Page, Result, passes,
                    prevPassCount, stopSeen, loopExit, logged >>

\* `await browser.close()` in the catch block throws: nothing catches it
CatchCloseThrow ==
    /\ pc = "catchClose"
    /\ closeCount' = closeCount + 1
    /\ outcome' = "rejected"
    /\ pc' = "done"
    /\ UNCHANGED << variant, request, selfChanging, browser, error, Locals, Page, contentParts,
                    extractedData, response, passes, prevPassCount, stopSeen, loopExit,
                    logged >>

Respond500 ==
    /\ pc = "respond500"
    /\ response' = ScrapeFailure(error)
    /\ outcome' = "returned"
    /\ pc' = "done"
    /\ UNCHANGED << variant, request, selfChanging, browser, error, Locals, Page, contentParts,
                    extractedData, History >>

Next ==
    \/ RouteReturn
    \/ RouteAccept
    \/ Launch
    \/ NewPage
    \/ Goto
    \/ WaitForSelector
    \/ PreWait
    \/ ClickAllCollapsed
    \/ GetCollapsedCount
    \/ ClickFirstCollapsed
    \/ Pause
    \/ ExpansionThrow
    \/ Settle
    \/ Extract
    \/ Close
    \/ Respond200
    \/ OuterThrow
    \/ CatchClose
    \/ CatchCloseThrow
    \/ Respond500

Spec == Init /\ [][Next]_vars

-----------------------------------------------------------------------------
(* The extractor alone, on every page of the bounded family *)

ExtractInit ==
    /\ variant \in Variants
    /\ request = [ path |-> "/scrape", method |-> "GET", url |-> UrlBoth ]
    /\ pc = "extract"
    /\ browser = TRUE
    /\ error = NoFault
    /\ iteration = 0
    /\ lastClickCount = -1
    /\ collapsed = 0
    /\ blocked = 0
    /\ selfChanging = FALSE
    /\ dom \in AllDoms
    /\ contentParts = << >>
    /\ extractedData = NoData
    /\ response = NoResponse
    /\ outcome = "pending"
    /\ closeCount = 0
    /\ passes = 0
    /\ prevPassCount = -1
    /\ stopSeen = FALSE
    /\ loopExit = "break"
    /\ logged = FALSE

ExtractNext == Extract

ExtractSpec == ExtractInit /\ [][ExtractNext]_vars

-----------------------------------------------------------------------------
(* Properties of the handler *)

HasCors(r) == CORS_HEADERS \subseteq r.headers

\* C1: once launch() has returned a handle, browser.close() has been invoked exactly
\* once when the handler is over, whatever awaited call threw after the acquisition.
C1_ClosedExactlyOnce ==
    /\ closeCount <= 1
    /\ (browser /\ pc = "done") => closeCount = 1

\* C2: when waitForSelector times out, the request ends with a 500 response whose
\* details carry the timeout, close() was invoked before it, and neither the
\* expansion loop nor the extraction ran.
C2_ContentWaitTimeout ==
    (pc = "done" /\ error = [ isError |-> TRUE, message |-> "waitForSelector" ]) =>
        /\ outcome = "returned"
        /\ response.status = 500
        /\ response.body.kind = "error"
        /\ response.body.details = "waitForSelector"
        /\ closeCount >= 1
        /\ passes = 0
        /\ loopExit = "none"
        /\ extractedData = NoData

IsPreflightResponse(r) ==
    /\ r.status \in 200..299
    /\ r.body.kind = "empty"
    /\ HasCors(r)

IsInvalidUrlResponse(r) ==
    /\ r.status = 400
    /\ r.body.kind = "error"
    /\ r.body.error = "Invalid Notion URL. Must be from notion.so or notion.site"

\* C4: in every variant, a non-OPTIONS request to /scrape with a non-empty url is
\* rejected with the invalid-URL 400 exactly when the url contains neither
\* 'notion.so' nor 'notion.site'; otherwise it enters the scrape pipeline.
C4_HostCheckIsOr ==
    ( /\ pc # "route"
      /\ request.path = "/scrape"
      /\ request.method # "OPTIONS"
      /\ ~MissingUrl(request.url) ) =>
        LET neither == /\ ~Includes(request.url, NotionSo)
                       /\ ~Includes(request.url, NotionSite)
        IN  IF neither
            THEN pc = "done" /\ IsInvalidUrlResponse(response)
            ELSE ~IsInvalidUrlResponse(response) /\ (pc = "done" => response.status # 400)
\* C5: the expansion loop makes at most maxIterations activation passes (20 in index.ts
\* and part_000, 100 in part_001); when it has made them all it is left for the
\* statements that follow the expansion phase (the wait and the extraction evaluate),
\* with nothing thrown, nothing logged and the browser still open, and once that wait
\* resolves the extraction evaluate is the next call.
C5_LoopIsCapped ==
    /\ [](/\ passes <= (IF variant = "part_001" THEN 100 ELSE 20)
          /\ loopExit = "cap" =>
                /\ passes = (IF variant = "part_001" THEN 100 ELSE 20)
                /\ ~logged
                /\ pc \notin InnerSites)
    /\ [][ /\ (loopExit = "none" /\ loopExit' = "cap") =>
                /\ pc' = "settle"
                /\ error' = NoFault
                /\ closeCount' = 0
           /\ (pc = "settle" /\ error' = NoFault) => pc' = "extract" ]_vars

C5_Witness ==
    /\ variant = "index"
    /\ loopExit = "cap"
    /\ passes = 20
    /\ prevPassCount > 0
    /\ pc = "extract"

IsResultOf(r, data) ==
    /\ r.status = 200
    /\ r.body.kind = "result"
    /\ r.body.title = data.title
    /\ r.body.content = data.content

\* C6 as stated: a throw inside the expansion phase is caught there: the browser is not
\* closed at that point, extraction is still run, and if extraction succeeds the
\* request ends with a 200 response holding the extracted title and content.
C6_ExpansionFaultThen200 ==
    logged =>
        /\ pc = "settle" => closeCount = 0 /\ error = NoFault
        /\ extractedData # NoData =>
              /\ pc \in { "close", "respond200", "done" }
              /\ pc = "done" => outcome = "returned" /\ IsResultOf(response, extractedData)

\* C6 as amended: a throw inside the expansion phase is caught there: the browser is
\* not closed at that point and control continues with the wait and the extraction
\* that follow the phase; if that wait, the extraction and the browser.close() after
\* it all resolve, the request ends with a 200 response holding the extracted title
\* and content; only a throw of one of those three calls ends it otherwise.
C6_ExpansionFaultIsLocal ==
    logged =>
        /\ loopExit = "fault"
        /\ pc = "settle" => closeCount = 0 /\ error = NoFault /\ outcome = "pending"
        /\ IF error = NoFault
           THEN /\ pc \in { "settle", "extract", "close", "respond200", "done" }
                /\ pc \in { "settle", "extract", "close" } => closeCount = 0
                /\ pc = "done" =>
                      /\ outcome = "returned"
                      /\ extractedData # NoData
                      /\ IsResultOf(response, extractedData)
                      /\ closeCount = 1
           ELSE error.message \in { "settle", "extract", "close" }

C6_Witness ==
    /\ logged
    /\ pc = "done"
    /\ response.status = 200
    /\ response.body.content # << >>

\* C7: a request that passed validation always ends with a response: a 500 whose body
\* has 'error' and a 'details' string taken from the fault when a call outside the
\* expansion phase threw, and the complete 200 {title, content} result otherwise.
C7_AlwaysAResponse ==
    (pc = "done" /\ RouteResponse(variant, request) = NoResponse) =>
        /\ outcome = "returned"
        /\ IF error # NoFault
           THEN /\ response.status = 500
                /\ response.body.kind = "error"
                /\ response.body.error = "Failed to scrape Notion page"
                /\ response.body.details \in { error.message, "Unknown error occurred" }
           ELSE IsResultOf(response, extractedData)

-----------------------------------------------------------------------------
(* Properties of the extractor *)

Extracted == pc = "close"

\* the characters of contentParts that come from the text of element j
Emitted(j) ==
    { << k, i >> \in (1..Len(contentParts)) \X (1..MaxNodes + 1) :
        i <= Len(contentParts[k]) /\ contentParts[k][i].o = j }

\* no character of the text inside block b is in content
ContributesNothing(b) ==
    \A j \in 1..Len(dom.nodes) : InSubtree(dom.nodes, j, b) => Emitted(j) = {}

HasClassIndicator(e) == e.cls \cap Indicators # {}

\* C8 as stated: in index.ts a block that contains an img, an svg, a video element, an
\* audio element or a file/embed indicator contributes nothing to content.
C8_MediaBlocksSkipped ==
    (Extracted /\ variant = "index") =>
        \A b \in Range(AllBlocks(dom.nodes)) :
            (\E j \in Descendants(dom.nodes, b) :
                \/ dom.nodes[j].tag \in { "img", "svg", "video", "audio" }
                \/ HasClassIndicator(dom.nodes[j]))
            => ContributesNothing(b)

\* C8 as amended: in index.ts a block that contains an img, an svg, or an element whose
\* class holds 'image', 'embed', 'video' or 'file' contributes nothing to content; a
\* top-level block whose only media are video or audio elements without such a class
\* is not skipped: its own text is emitted.
C8_SkippedByImgSvgOrClass ==
    (Extracted /\ variant = "index") =>
        \A b \in Range(AllBlocks(dom.nodes)) :
            LET marked == \E j \in Descendants(dom.nodes, b) :
                              \/ dom.nodes[j].tag \in { "img", "svg" }
                              \/ HasClassIndicator(dom.nodes[j])
            IN  /\ marked => ContributesNothing(b)
                /\ ( /\ ~marked
                     /\ dom.nodes[b].parent = 0
                     /\ dom.nodes[b].text = "a" ) => Emitted(b) # {}

C8_Witness ==
    /\ Extracted
    /\ variant = "index"
    /\ Len(dom.nodes) = 3
    /\ dom.nodes[1].block /\ dom.nodes[1].text = "a"
    /\ dom.nodes[2].tag = "svg" /\ dom.nodes[2].parent = 1
    /\ dom.nodes[3].block /\ dom.nodes[3].text = "a" /\ dom.nodes[3].parent = 0
    /\ Emitted(1) = {}
    /\ Emitted(3) # {}

\* C9: under the top-level-only policy (index.ts) and the direct-text-only policy
\* (part_000), no character of a block's text is in content more than once: the text
\* of a nested block is never emitted both inside an ancestor's entry and on its own.
C9_NoDoubleEmission ==
    (Extracted /\ variant \in { "index", "part_000" }) =>
        \A j \in 1..Len(dom.nodes) : Cardinality(Emitted(j)) <= 1

C9_Witness ==
    /\ Extracted
    /\ variant = "index"
    /\ Len(dom.nodes) >= 2
    /\ dom.nodes[1].block /\ dom.nodes[1].text = "a"
    /\ dom.nodes[2].block /\ dom.nodes[2].text = "a" /\ dom.nodes[2].parent = 1
    /\ Cardinality(Emitted(2)) = 1

-----------------------------------------------------------------------------
(* Properties of the expansion loop's stop test *)

Batch == variant \in { "index", "part_000" }

\* a step in which an activation pass of a batch variant completes
PassCompletes == Batch /\ pc = "clickAllCollapsed" /\ loopExit' # "fault"

\* C10 as stated: in index.ts and part_000 no activation pass follows the first pass
\* that activated nothing or as many elements as the pass before it; any other pass
\* is followed by the pause and, below the cap, by another pass.
C10_StopsAtFirstPlateau ==
    [][ /\ (Batch /\ stopSeen) => passes' = passes
        /\ (PassCompletes /\ ~stopSeen') => pc' = "pause" ]_vars

\* C10 as amended: in index.ts no activation pass follows the first pass that activated
\* nothing or as many elements as the pass before it.  In part_000 no pass follows a
\* pass, other than the first, that activated as many elements as the pass before it,
\* nor a pass that activated nothing when at least three passes came before it; a
\* first pass that activates nothing is followed by another pass.  In both, any other
\* pass is followed by the pause and then, below the cap of 20, by another pass,
\* unless a call throws.
C10_StopTest ==
    [][ /\ (Batch /\ loopExit # "none") => passes' = passes
        /\ PassCompletes =>
             LET count == prevPassCount'
                 stop == IF variant = "index"
                         THEN count = 0 \/ count = prevPassCount
                         ELSE \/ (passes > 0 /\ count = prevPassCount)
                              \/ (passes > 2 /\ count = 0)
             IN  IF stop
                 THEN pc' = "settle" /\ loopExit' = "break"
                 ELSE pc' = "pause" /\ loopExit' = "none"
        /\ (Batch /\ pc = "pause" /\ ~logged') =>
             IF passes < 20
             THEN pc' = "clickAllCollapsed" /\ loopExit' = "none"
             ELSE pc' = "settle" /\ loopExit' = "cap" ]_vars

C10_Witness ==
    /\ variant = "part_000"
    /\ loopExit = "break"
    /\ passes = 3
    /\ prevPassCount = 2
    /\ pc = "settle"

-----------------------------------------------------------------------------
(* What the page holds when the expansion loop of index.ts stops early *)

\* the loop of index.ts has just ended by its break, on a page whose toggles change
\* only by being activated
EndedEarly ==
    /\ variant = "index"
    /\ ~selfChanging
    /\ loopExit = "break"
    /\ pc = "settle"

\* C11 as stated: in index.ts, when the expansion loop ends without a fault and before
\* the cap, the page holds no collapsed toggle that is visible and enabled, whenever
\* activating a toggle expands it and may reveal further collapsed toggles.
C11_NothingLeftCollapsed ==
    EndedEarly => collapsed = 0

\* C11 as amended: in index.ts, when the expansion loop ends without a fault and before
\* the cap, its last pass activated nothing or as many toggles as the pass before it;
\* in the first case the page holds no collapsed toggle that is visible and enabled
\* (toggles appearing only as the immediate effect of an activation); in the second
\* case the toggles revealed by the last pass may still be collapsed.
C11_NothingLeftAfterEmptyPass ==
    EndedEarly =>
        /\ stopSeen
        /\ prevPassCount = 0 => collapsed = 0
        /\ prevPassCount # 0 => passes >= 2

C11_Witness ==
    /\ EndedEarly
    /\ prevPassCount = 0
    /\ passes = 3
    /\ collapsed = 0

====
